---- MODULE Spec2Model ----
(***************************************************************************)
(* Model of src/app.py (KalenTseng/UKEC): create_offer_sheets and its      *)
(* helpers.  A Python string is a sequence of characters; a character is   *)
(* a one-character TLA+ string, or "U+XXXX" for a character outside ASCII. *)
(* A Python value is a record [t, n, s]: t is its type, n its number (int  *)
(* and float), s its text (str).                                           *)
(***************************************************************************)
EXTENDS Integers, Sequences, FiniteSets, TLC

(***************************************************************************)
(* Python values                                                           *)
(***************************************************************************)
IntV(n) == [t |-> "int", n |-> n, s |-> <<>>]
FloatV(n) == [t |-> "float", n |-> n, s |-> <<>>]
StrV(s) == [t |-> "str", n |-> 0, s |-> s]
NoneV == [t |-> "none", n |-> 0, s |-> <<>>]
NaN == [t |-> "nan", n |-> 0, s |-> <<>>]

\* isinstance(value, str)
IsStr(v) == v.t = "str"

\* pd.isna(value)
IsNa(v) == v.t \in {"nan", "none"}

\* bool(value), as `if value:` takes it (float nan is true)
Truthy(v) ==
    CASE v.t = "int" -> v.n # 0
      [] v.t = "float" -> v.n # 0
      [] v.t = "str" -> v.s # <<>>
      [] v.t = "nan" -> TRUE
      [] OTHER -> FALSE

\* The characters the model uses and, at the same index, their code points
OrdChars ==
  <<
    "\t", "\n", "\r", " ", "!", "\"", "$", "'", "(", ")", "*", "+", ",", "-", ".", "/",
    "0", "1", "2", "3", "4", "5", "6", "7", "8", "9", ":", "=", "?", "A", "B", "C", "D",
    "E", "F", "G", "H", "I", "J", "K", "L", "M", "N", "O", "P", "Q", "R", "S", "T", "U",
    "V", "W", "X", "Y", "Z", "[", "\\", "]", "_", "a", "b", "c", "d", "e", "f", "g", "h",
    "i", "j", "k", "l", "m", "n", "o", "p", "q", "r", "s", "t", "u", "v", "w", "x", "y",
    "z", "U+4E09", "U+4E13", "U+4E1A", "U+4EA4", "U+4ED8", "U+4FE1", "U+4FEE", "U+5012",
    "U+51B5", "U+5217", "U+540D", "U+56DB", "U+5927", "U+5929", "U+5931", "U+59D3",
    "U+5B66", "U+5DF2", "U+5F03", "U+5F20", "U+5F85", "U+5F97", "U+60C5", "U+6216",
    "U+622A", "U+62BC", "U+62D2", "U+64A4", "U+6539", "U+653E", "U+6599", "U+65F6",
    "U+672A", "U+674E", "U+6750", "U+6821", "U+6B62", "U+6C42", "U+751F", "U+7533",
    "U+77E5", "U+7BB1", "U+7F3A", "U+83B7", "U+8868", "U+8BA1", "U+8BF7", "U+8D39",
    "U+8DDF", "U+8FDB", "U+9009", "U+9012", "U+90AE", "U+91D1", "U+9500", "U+9700",
    "U+9879", "U+FF08", "U+FF09"
  >>

OrdCodes ==
  <<
    9, 10, 13, 32, 33, 34, 36, 39, 40, 41, 42, 43, 44, 45, 46, 47, 48, 49, 50, 51, 52, 53,
    54, 55, 56, 57, 58, 61, 63, 65, 66, 67, 68, 69, 70, 71, 72, 73, 74, 75, 76, 77, 78, 79,
    80, 81, 82, 83, 84, 85, 86, 87, 88, 89, 90, 91, 92, 93, 95, 97, 98, 99, 100, 101, 102,
    103, 104, 105, 106, 107, 108, 109, 110, 111, 112, 113, 114, 115, 116, 117, 118, 119,
    120, 121, 122, 19977, 19987, 19994, 20132, 20184, 20449, 20462, 20498, 20917, 21015,
    21517, 22235, 22823, 22825, 22833, 22995, 23398, 24050, 24323, 24352, 24453, 24471,
    24773, 25110, 25130, 25276, 25298, 25764, 25913, 25918, 26009, 26102, 26410, 26446,
    26448, 26657, 27490, 27714, 29983, 30003, 30693, 31665, 32570, 33719, 34920, 35745,
    35831, 36153, 36319, 36827, 36873, 36882, 37038, 37329, 38144, 38656, 39033, 65288,
    65289
  >>

\* ord(char)
Ord(c) == OrdCodes[CHOOSE i \in 1..Len(OrdChars) : OrdChars[i] = c]

Quote == "\""

WhiteSpace == {" ", "\t", "\n", "\r"}

Digits == <<"0", "1", "2", "3", "4", "5", "6", "7", "8", "9">>

IsDigit(c) == \E i \in 1..10 : Digits[i] = c

DigitVal(c) == (CHOOSE i \in 1..10 : Digits[i] = c) - 1

Max(a, b) == IF a >= b THEN a ELSE b

Min(a, b) == IF a <= b THEN a ELSE b

\* s[:n]
Take(s, n) == SubSeq(s, 1, Min(n, Len(s)))

\* s.startswith(p)
StartsWith(s, p) == Len(s) >= Len(p) /\ SubSeq(s, 1, Len(p)) = p

\* sub in s
Contains(s, sub) ==
    \E i \in 1..(Len(s) - Len(sub) + 1) : SubSeq(s, i, i + Len(sub) - 1) = sub

\* a < b for two Python strings: by code point, the shorter of two equal prefixes first
RECURSIVE StrLess(_, _)
StrLess(a, b) ==
    IF b = <<>> THEN FALSE
    ELSE IF a = <<>> THEN TRUE
    ELSE IF Ord(Head(a)) # Ord(Head(b)) THEN Ord(Head(a)) < Ord(Head(b))
    ELSE StrLess(Tail(a), Tail(b))

\* The decimal digits of a natural number
RECURSIVE DecDigits(_)
DecDigits(n) ==
    IF n < 10 THEN <<Digits[n + 1]>> ELSE DecDigits(n \div 10) \o <<Digits[(n % 10) + 1]>>

\* str(value), also what an f-string writes for {value}
PyStr(v) ==
    CASE v.t = "int" -> IF v.n < 0 THEN <<"-">> \o DecDigits(-v.n) ELSE DecDigits(v.n)
      [] v.t = "float" ->
           (IF v.n < 0 THEN <<"-">> \o DecDigits(-v.n) ELSE DecDigits(v.n)) \o <<".", "0">>
      [] v.t = "str" -> v.s
      [] v.t = "nan" -> <<"n", "a", "n">>
      [] OTHER -> <<"N", "o", "n", "e">>

\* s.strip()
RECURSIVE LStrip(_)
LStrip(s) == IF s # <<>> /\ Head(s) \in WhiteSpace THEN LStrip(Tail(s)) ELSE s

RECURSIVE RStrip(_)
RStrip(s) ==
    IF s # <<>> /\ s[Len(s)] \in WhiteSpace THEN RStrip(SubSeq(s, 1, Len(s) - 1)) ELSE s

Strip(s) == LStrip(RStrip(s))

\* The value of a run of digits and single underscores between digits
RECURSIVE DecVal(_, _)
DecVal(s, acc) ==
    IF s = <<>> THEN acc
    ELSE IF Head(s) = "_" THEN DecVal(Tail(s), acc)
    ELSE DecVal(Tail(s), 10 * acc + DigitVal(Head(s)))

\* Whether int(s) accepts the body of a literal: digits, single underscores only between digits
IsIntBody(s) ==
    /\ s # <<>>
    /\ \A i \in 1..Len(s) : IsDigit(s[i]) \/ s[i] = "_"
    /\ IsDigit(s[1]) /\ IsDigit(s[Len(s)])
    /\ \A i \in 1..(Len(s) - 1) : ~(s[i] = "_" /\ s[i + 1] = "_")

Unsigned(s) == IF s # <<>> /\ Head(s) \in {"+", "-"} THEN Tail(s) ELSE s

\* int(s) raises ValueError
IntFails(s) == ~IsIntBody(Unsigned(Strip(s)))

\* int(s), when it does not raise
IntOf(s) ==
    LET b == Strip(s)
    IN IF b # <<>> /\ Head(b) = "-" THEN 0 - DecVal(Tail(b), 0) ELSE DecVal(Unsigned(b), 0)

\* s.split(sep) for a one-character separator: the pieces between the separators
Split(s, sep) ==
    LET at == {i \in 1..Len(s) : s[i] = sep}
        \* the position of the k-th separator; 0 and Len(s) + 1 bound the string
        Pos(k) == IF k = 0 THEN 0
                  ELSE IF k > Cardinality(at) THEN Len(s) + 1
                  ELSE CHOOSE i \in at : Cardinality({j \in at : j < i}) = k - 1
    IN [k \in 1..(Cardinality(at) + 1) |-> SubSeq(s, Pos(k - 1) + 1, Pos(k) - 1)]

(***************************************************************************)
(* clean_excel_value, clean_sheet_name                                     *)
(***************************************************************************)
MaxCellLen == 32767

MaxSheetNameLen == 31

\* One character through the replacements of lines 23 and 25
CleanChar(c) ==
    IF c = "U+FF08" THEN "("
    ELSE IF c = "U+FF09" THEN ")"
    ELSE IF c \in {"\n", "\r"} THEN " "
    ELSE c

\* Lines 23-27: the replacements, then the characters below code point 32 dropped
CleanChars(s) ==
    SelectSeq([i \in 1..Len(s) |-> CleanChar(s[i])], LAMBDA c : Ord(c) >= 32)

clean_excel_value(value) ==
    IF ~IsStr(value) THEN value ELSE StrV(Take(CleanChars(value.s), MaxCellLen))

\* re.sub(r'[\[\]:*?/\\]', '_', name)
SheetChar(c) == IF c \in {"[", "]", ":", "*", "?", "/", "\\"} THEN "_" ELSE c

\* The title of the sheet of a client; name is str(client_id)
clean_sheet_name(name) ==
    LET cleaned_name == clean_excel_value(StrV([i \in 1..Len(name) |-> SheetChar(name[i])])).s
    IN Take(cleaned_name, MaxSheetNameLen)

(***************************************************************************)
(* extract_id_from_hyperlink, extract_name_from_hyperlink                  *)
(***************************************************************************)
HYPERLINK == <<"=", "H", "Y", "P", "E", "R", "L", "I", "N", "K">>

\* The extractor reading the quoted piece before the display text
extract_id_from_third_piece(value) ==
    IF IsStr(value) /\ StartsWith(value.s, HYPERLINK)
    THEN LET parts == Split(value.s, Quote)
         IN IF Len(parts) < 3 THEN value
            ELSE IF IntFails(parts[3]) THEN value
            ELSE IntV(IntOf(parts[3]))
    ELSE value

extract_id_from_hyperlink(value) ==
    IF IsStr(value) /\ StartsWith(value.s, HYPERLINK)
    THEN LET parts == Split(value.s, Quote)
         IN IF Len(parts) < 4 THEN value                  \* IndexError
            ELSE IF IntFails(parts[4]) THEN value         \* ValueError
            ELSE IntV(IntOf(parts[4]))
    ELSE value

extract_name_from_hyperlink(value) ==
    IF IsStr(value) /\ StartsWith(value.s, HYPERLINK)
    THEN LET parts == Split(value.s, Quote)
         IN IF Len(parts) < 2 THEN value                  \* IndexError
            ELSE StrV(parts[Len(parts) - 1])
    ELSE value

(***************************************************************************)
(* Text constants of the source.  Column names are written in ASCII:       *)
(*   clientId = 客户id, name = 姓名, institution = 申请院校英文,           *)
(*   program = 申请专业英文, resultStatus = 申请结果,                      *)
(*   admissionCondition = 入学条件, languageDone = 是否完成语言条件,       *)
(*   languageCondition = 语言条件, referenceDone = 是否完成推荐信条件,     *)
(*   referenceCondition = 推荐信条件, depositType = 押金类型,              *)
(*   depositDeadline = 押金截止日期, depositDone = 是否完成押金条件,       *)
(*   depositCondition = 成押金条件, countdown = 押金截止倒计时(天)         *)
(***************************************************************************)
columns_to_keep ==
    <<"clientId", "name", "institution", "program", "resultStatus", "Student-Number",
      "admissionCondition", "languageDone", "languageCondition", "referenceDone",
      "referenceCondition", "depositType", "depositDeadline", "depositDone",
      "depositCondition">>

\* 获得CAS/COE
S_CAS == <<"U+83B7", "U+5F97", "C", "A", "S", "/", "C", "O", "E">>
\* 获得UO
S_UO == <<"U+83B7", "U+5F97", "U", "O">>
\* 获得CO
S_CO == <<"U+83B7", "U+5F97", "C", "O">>
\* 拒信
S_REJECT == <<"U+62D2", "U+4FE1">>
\* 大学撤销
S_WITHDRAWN == <<"U+5927", "U+5B66", "U+64A4", "U+9500">>
\* 学生放弃
S_GIVEUP == <<"U+5B66", "U+751F", "U+653E", "U+5F03">>
\* 已递交
S_SUBMITTED == <<"U+5DF2", "U+9012", "U+4EA4">>
\* 未递-待交申请费
S_FEE_UNSENT == <<"U+672A", "U+9012", "-", "U+5F85", "U+4EA4", "U+7533", "U+8BF7", "U+8D39">>
\* 已递交-申请费待付
S_FEE_SENT ==
    <<"U+5DF2", "U+9012", "U+4EA4", "-", "U+7533", "U+8BF7", "U+8D39", "U+5F85", "U+4ED8">>
\* 未递-材料缺失或需修改
S_DOCS ==
    <<"U+672A", "U+9012", "-", "U+6750", "U+6599", "U+7F3A", "U+5931", "U+6216", "U+9700",
      "U+4FEE", "U+6539">>
\* 未获得
NOT_OBTAINED == <<"U+672A", "U+83B7", "U+5F97">>
\* 获得
OBTAINED == <<"U+83B7", "U+5F97">>
\* 未知姓名
UNKNOWN_NAME == <<"U+672A", "U+77E5", "U+59D3", "U+540D">>
\* 邮箱
MAILBOX == <<"U+90AE", "U+7BB1">>
\* Offer 跟进.xlsx
OFFER_FILE == <<"O", "f", "f", "e", "r", " ", "U+8DDF", "U+8FDB", ".", "x", "l", "s", "x">>
\* 申请跟进.xlsx
KALEN_FILE == <<"U+7533", "U+8BF7", "U+8DDF", "U+8FDB", ".", "x", "l", "s", "x">>
\* http://crmuk.ukec.com/admin/school-apply/detail?id=
CRM_URL ==
    <<"h", "t", "t", "p", ":", "/", "/", "c", "r", "m", "u", "k", ".", "u", "k", "e", "c",
      ".", "c", "o", "m", "/", "a", "d", "m", "i", "n", "/", "s", "c", "h", "o", "o", "l",
      "-", "a", "p", "p", "l", "y", "/", "d", "e", "t", "a", "i", "l", "?", "i", "d", "=">>
\* http://crmuk.ukec.com/admin/customer-email/detail?id=
EMAIL_URL ==
    <<"h", "t", "t", "p", ":", "/", "/", "c", "r", "m", "u", "k", ".", "u", "k", "e", "c",
      ".", "c", "o", "m", "/", "a", "d", "m", "i", "n", "/", "c", "u", "s", "t", "o", "m",
      "e", "r", "-", "e", "m", "a", "i", "l", "/", "d", "e", "t", "a", "i", "l", "?", "i",
      "d", "=">>
DEFAULT_SHEET == <<"S", "h", "e", "e", "t">>

\* f'=HYPERLINK("{target}", "{text}")'
HyperlinkFormula(target, text) ==
    HYPERLINK \o <<"(", Quote>> \o target \o <<Quote, ",", " ", Quote>> \o text
        \o <<Quote, ")">>

(***************************************************************************)
(* Reading the flat dataset: lines 100-146                                 *)
(***************************************************************************)
\* A CSV field that pandas reads as an integer
IsIntField(f) == f # <<>> /\ \A i \in 1..Len(f) : IsDigit(f[i])

\* pd.read_csv on the clientId column: int64 when every field is an integer, float64
\* when some fields are empty and the others integers, else text with NaN for empty
ReadIdColumn(fields) ==
    LET n == Len(fields)
        numeric == \A i \in 1..n : fields[i] = <<>> \/ IsIntField(fields[i])
        full == \A i \in 1..n : fields[i] # <<>>
    IN [i \in 1..n |->
          IF fields[i] = <<>> THEN NaN
          ELSE IF numeric /\ full THEN IntV(DecVal(fields[i], 0))
          ELSE IF numeric THEN FloatV(DecVal(fields[i], 0))
          ELSE StrV(fields[i])]

DateV(d) == [t |-> "date", n |-> d, s |-> <<>>]

\* parse_date; a date field is [k, d]: k = "date" or "datetime" (a text pd.to_datetime
\* reads as day d, without or with a time of day), "junk" (a text it rejects), "empty"
parse_date(date_str) ==
    IF date_str.k = "empty" THEN NoneV
    ELSE IF date_str.k \in {"date", "datetime"} THEN DateV(date_str.d)
    ELSE NoneV

\* template_df.replace('未获得', '') on one value
ReplaceNotObtained(v) == IF v = StrV(NOT_OBTAINED) THEN StrV(<<>>) ELSE v

\* The columns of columns_to_keep the file has, in the order of columns_to_keep
ExistingColumns(file_columns) ==
    SelectSeq(columns_to_keep, LAMBDA col : col \in file_columns)

MissingColumns(file_columns) ==
    SelectSeq(columns_to_keep, LAMBDA col : col \notin file_columns)

\* The data frame after lines 100-146: one function from column to value for every row.
\* Columns the model does not vary hold NaN (an empty field).
ReadTemplate(csv) ==
    LET ids == ReadIdColumn([i \in 1..Len(csv.rows) |-> csv.rows[i].clientId])
        existing == ExistingColumns(csv.columns)
        cols == {existing[i] : i \in 1..Len(existing)}
        Field(i, col) ==
            CASE col = "clientId" -> ReplaceNotObtained(ids[i])
              [] col = "depositDeadline" -> parse_date(csv.rows[i].depositDeadline)
              [] col \in {"name", "institution", "program", "resultStatus"} ->
                   ReplaceNotObtained(csv.rows[i][col])
              [] OTHER -> NaN
    IN [i \in 1..Len(csv.rows) |-> [col \in cols |-> Field(i, col)]]

(***************************************************************************)
(* Grouping and ranking: lines 200-230                                     *)
(***************************************************************************)
\* template_df['客户id'].unique(): first appearance order, one NaN for all NaN
RECURSIVE UniqueAcc(_, _)
UniqueAcc(ids, seen) ==
    IF ids = <<>> THEN seen
    ELSE IF \E j \in 1..Len(seen) : seen[j] = Head(ids) THEN UniqueAcc(Tail(ids), seen)
    ELSE UniqueAcc(Tail(ids), Append(seen, Head(ids)))

Unique(rows) == UniqueAcc([i \in 1..Len(rows) |-> rows[i]["clientId"]], <<>>)

\* template_df['客户id'] == client_id for one row: NaN equals nothing
IdEquals(v, client_id) == ~IsNa(v) /\ ~IsNa(client_id) /\ v = client_id

\* template_df[template_df['客户id'] == client_id]
ClientRows(rows, client_id) ==
    SelectSeq(rows, LAMBDA r : IdEquals(r["clientId"], client_id))

\* result_priority.get(x, 6)
result_priority(x) ==
    CASE x = StrV(S_CAS) -> 1
      [] x = StrV(S_UO) -> 2
      [] x = StrV(S_CO) -> 3
      [] x = StrV(S_REJECT) -> 4
      [] x = StrV(S_WITHDRAWN) -> 5
      [] OTHER -> 6

\* The order of sort_values on one column of text: NaN last
StatusLess(x, y) ==
    IF IsNa(x) THEN FALSE ELSE IF IsNa(y) THEN TRUE ELSE StrLess(x.s, y.s)

\* a sorts strictly before b under ['sort_key', '申请结果']
RowLess(a, b) ==
    LET ka == result_priority(a["resultStatus"])
        kb == result_priority(b["resultStatus"])
    IN ka < kb \/ (ka = kb /\ StatusLess(a["resultStatus"], b["resultStatus"]))

\* An insertion that puts x ahead of the rows of its own key
RECURSIVE InsertRowUnstable(_, _)
InsertRowUnstable(sorted, x) ==
    IF sorted = <<>> THEN <<x>>
    ELSE IF ~RowLess(Head(sorted), x) THEN <<x>> \o sorted
    ELSE <<Head(sorted)>> \o InsertRowUnstable(Tail(sorted), x)

\* x into the sorted sequence, behind every row it does not sort strictly before
RECURSIVE InsertRow(_, _)
InsertRow(sorted, x) ==
    IF sorted = <<>> THEN <<x>>
    ELSE IF RowLess(x, Head(sorted)) THEN <<x>> \o sorted
    ELSE <<Head(sorted)>> \o InsertRow(Tail(sorted), x)

\* client_data.sort_values(['sort_key', '申请结果']): on several columns pandas sorts
\* stably
RECURSIVE SortRows(_)
SortRows(rows) ==
    IF rows = <<>> THEN <<>>
    ELSE InsertRow(SortRows(SubSeq(rows, 1, Len(rows) - 1)), rows[Len(rows)])

\* client_name, lines 227-230: the name of the first row after sorting
ClientName(client_data) ==
    IF Len(client_data) > 0 /\ "name" \in DOMAIN client_data[1]
    THEN IF ~IsNa(client_data[1]["name"]) THEN PyStr(client_data[1]["name"])
         ELSE UNKNOWN_NAME
    ELSE UNKNOWN_NAME

(***************************************************************************)
(* The per-client sheet: lines 236-328.  A sheet is [title, cells]; cells  *)
(* maps <<row, column>> to [v, fill, font].                                *)
(***************************************************************************)
Cell(v, fill, font) == [v |-> v, fill |-> fill, font |-> font]

EMAIL_COLUMN == 14

DisplayColumns(existing) ==
    SelectSeq(existing, LAMBDA col : col \notin {"clientId", "name"})

\* The conditional format of the cell of 申请结果, lines 280-300: <<fill, font>>
StatusStyle(v) ==
    IF ~Truthy(v) THEN <<"", "">>
    ELSE IF Contains(PyStr(v), OBTAINED) THEN <<"008000", "FFFFFF bold">>
    ELSE IF v \in {StrV(S_REJECT), StrV(S_WITHDRAWN), StrV(S_GIVEUP)} THEN <<"808080", "bold">>
    ELSE IF v = StrV(S_SUBMITTED) THEN <<"FFC222", "bold">>
    ELSE IF v \in {StrV(S_FEE_UNSENT), StrV(S_FEE_SENT)} THEN <<"5F9EA0", "bold">>
    ELSE IF v = StrV(S_DOCS) THEN <<"F08080", "bold">>
    ELSE <<"", "">>

\* The red tier ending a day early
CountdownStyleBelow30(days_left) ==
    IF days_left < 30 /\ days_left > 0 THEN <<"FF0000", "FFFFFF">>
    ELSE IF days_left <= 0 THEN <<"808080", "">>
    ELSE <<"", "">>

\* The format of the countdown cell, lines 316-322: <<fill, font>>
CountdownStyle(days_left) ==
    IF days_left <= 30 /\ days_left > 0 THEN <<"FF0000", "FFFFFF">>
    ELSE IF days_left <= 0 THEN <<"808080", "">>
    ELSE <<"", "">>

\* The cell of one field of one record, lines 270-300
DataCell(field, raw) ==
    LET v == clean_excel_value(raw)
        shown == IF v = StrV(NOT_OBTAINED) THEN StrV(<<>>) ELSE v
        style == IF field = "resultStatus" THEN StatusStyle(v) ELSE <<"", "">>
    IN Cell(shown, style[1], style[2])

\* (deadline.date() - today).days
DaysLeft(deadline, today) == deadline.n - today

ClientSheet(client_id, client_data, existing, today) ==
    LET display_columns == DisplayColumns(existing)
        nd == Len(display_columns)
        headers == Append(display_columns, "countdown")
        nh == Len(headers)
        n == Len(client_data)
        dated == {r \in 1..n : ~IsNa(client_data[r]["depositDeadline"])}
        dom == {<<1, c>> : c \in (1..nd) \cup {EMAIL_COLUMN}}
                 \cup {<<2, c>> : c \in 1..nh}
                 \cup {<<r + 2, c>> : r \in 1..n, c \in 1..nd}
                 \cup {<<r + 2, nh>> : r \in dated}
        At(rc) ==
            LET r == rc[1]
                c == rc[2]
            IN IF r = 1 /\ c = 1
               THEN Cell(StrV(HyperlinkFormula(CRM_URL \o PyStr(client_id),
                                               ClientName(client_data))),
                         "", "0000FF bold underline")
               ELSE IF r = 1 /\ c = EMAIL_COLUMN
               THEN Cell(StrV(HyperlinkFormula(EMAIL_URL \o PyStr(client_id), MAILBOX)),
                         "", "0000FF bold underline")
               ELSE IF r = 1 THEN Cell(NoneV, "", "")         \* merged into A1
               ELSE IF r = 2 THEN Cell(StrV(<<headers[c]>>), "D3D3D3", "")
               ELSE IF c = nh /\ (r - 2) \in dated
               THEN LET days_left == DaysLeft(client_data[r - 2]["depositDeadline"], today)
                        style == CountdownStyle(days_left)
                    IN Cell(IntV(days_left), style[1], style[2])
               ELSE DataCell(display_columns[c], client_data[r - 2][display_columns[c]])
    IN [title |-> clean_sheet_name(PyStr(client_id)), cells |-> [rc \in dom |-> At(rc)]]

\* offer_wb.sheetnames
SheetNames(wb) == [i \in 1..Len(wb) |-> wb[i].title]

HasSheet(wb, title) == \E i \in 1..Len(wb) : wb[i].title = title

\* offer_wb.remove(offer_wb[title])
RemoveSheet(wb, title) == SelectSeq(wb, LAMBDA sh : sh.title # title)

\* Lines 236-241: a sheet of the same title is removed, the new sheet goes last
PutSheet(wb, sheet) ==
    Append(IF HasSheet(wb, sheet.title) THEN RemoveSheet(wb, sheet.title) ELSE wb, sheet)

\* ws.max_row, ws.max_column
MaxRow(ws) == CHOOSE r \in {rc[1] : rc \in DOMAIN ws.cells} :
                 \A rc \in DOMAIN ws.cells : rc[1] <= r

MaxColumn(ws) == CHOOSE c \in {rc[2] : rc \in DOMAIN ws.cells} :
                    \A rc \in DOMAIN ws.cells : rc[2] <= c

\* ws.cell(row=r, column=c).value: a cell that was never written holds None
CellValue(ws, r, c) == IF <<r, c>> \in DOMAIN ws.cells THEN ws.cells[<<r, c>>].v ELSE NoneV

(***************************************************************************)
(* The source workbook.  The selected sheet is [id_col, ncols, ids]:       *)
(* id_col is the column of row 1 that holds 客户id (0 when none does), ids *)
(* the cells of that column from row 2 on.  A stored cell is [v, cached]:  *)
(* v is its value or formula, cached the value a spreadsheet program left  *)
(* beside a formula (None when the file was never recalculated).           *)
(***************************************************************************)
Stored(v, cached) == [v |-> v, cached |-> cached]

IsFormula(v) == IsStr(v) /\ Len(v.s) > 1 /\ Head(v.s) = "="

\* cell.value after load_workbook(tmp_path), without data_only
FormulaValue(cell) == cell.v

\* cell.value after load_workbook(tmp_path, data_only=True)
DataOnlyValue(cell) == IF IsFormula(cell.v) THEN cell.cached ELSE cell.v

\* Lines 166-176: row -> extracted identifier, for the rows where it is true.
\* Row i + 1 of the sheet is ids[i].
CaptureIds(sheet) ==
    IF sheet.id_col = 0 THEN <<>>
    ELSE LET clean_id(i) == extract_id_from_hyperlink(DataOnlyValue(sheet.ids[i]))
             kept == {i \in 1..Len(sheet.ids) : Truthy(clean_id(i))}
         IN [row \in {i + 1 : i \in kept} |-> clean_id(row - 1)]

\* f'=HYPERLINK("[Offer 跟进.xlsx]{original_id}!A1", "{original_id}")'
LinkFormula(original_id) ==
    HyperlinkFormula(<<"[">> \o OFFER_FILE \o <<"]">> \o PyStr(original_id)
                         \o <<"!", "A", "1">>,
                     PyStr(original_id))

\* Lines 339-345 on the id column read by load_workbook(tmp_path): a written formula
\* has no cached value
LinkIds(sheet, ids) ==
    [i \in 1..Len(sheet.ids) |->
        IF sheet.id_col # 0 /\ (i + 1) \in DOMAIN ids /\ Truthy(ids[i + 1])
        THEN Stored(StrV(LinkFormula(ids[i + 1])), NoneV)
        ELSE sheet.ids[i]]

(***************************************************************************)
(* The deadline rollup: lines 446-473                                      *)
(***************************************************************************)
\* 押金DDL, VIP情况
SUMMARY_SHEET == <<"U+62BC", "U+91D1", "D", "D", "L">>
VIP_SHEET == <<"V", "I", "P", "U+60C5", "U+51B5">>

\* isinstance(deadline, (int, float)) and 0 <= deadline <= 30
InWindow(deadline) == deadline.t \in {"int", "float"} /\ 0 <= deadline.n /\ deadline.n <= 30

\* The entries of one sheet, rows 3..max_row, read at column max_column
SheetSummary(ws) ==
    LET client_name == extract_name_from_hyperlink(CellValue(ws, 1, 1))
        rows == SelectSeq([k \in 1..(MaxRow(ws) - 2) |-> k + 2],
                          LAMBDA r : InWindow(CellValue(ws, r, MaxColumn(ws))))
    IN [k \in 1..Len(rows) |->
          [name |-> client_name, clientId |-> ws.title, row |-> rows[k],
           institution |-> CellValue(ws, rows[k], 1),
           program |-> CellValue(ws, rows[k], 2),
           days |-> CellValue(ws, rows[k], MaxColumn(ws)).n]]

RECURSIVE CollectSummary(_)
CollectSummary(wb) ==
    IF wb = <<>> THEN <<>>
    ELSE (IF Head(wb).title \in {SUMMARY_SHEET, VIP_SHEET} THEN <<>>
          ELSE SheetSummary(Head(wb))) \o CollectSummary(Tail(wb))

RECURSIVE InsertByDays(_, _)
InsertByDays(sorted, x) ==
    IF sorted = <<>> THEN <<x>>
    ELSE IF x.days < Head(sorted).days THEN <<x>> \o sorted
    ELSE <<Head(sorted)>> \o InsertByDays(Tail(sorted), x)

\* summary_data.sort(key=lambda x: x['剩余天数']): list.sort is stable
RECURSIVE SortByDays(_)
SortByDays(data) ==
    IF data = <<>> THEN <<>>
    ELSE InsertByDays(SortByDays(SubSeq(data, 1, Len(data) - 1)), data[Len(data)])

SummaryData(wb) == SortByDays(CollectSummary(wb))

(***************************************************************************)
(* The VIP rollup: lines 348-431                                           *)
(***************************************************************************)
UpperChars ==
    <<"A", "B", "C", "D", "E", "F", "G", "H", "I", "J", "K", "L", "M", "N", "O", "P", "Q",
      "R", "S", "T", "U", "V", "W", "X", "Y", "Z">>

LowerChars ==
    <<"a", "b", "c", "d", "e", "f", "g", "h", "i", "j", "k", "l", "m", "n", "o", "p", "q",
      "r", "s", "t", "u", "v", "w", "x", "y", "z">>

\* s.lower(), on the letters the model writes
Lower(s) ==
    [i \in 1..Len(s) |->
        IF \E k \in 1..Len(UpperChars) : UpperChars[k] = s[i]
        THEN LowerChars[CHOOSE k \in 1..Len(UpperChars) : UpperChars[k] = s[i]]
        ELSE s[i]]

vip_schools ==
    << <<"U", "n", "i", "v", "e", "r", "s", "i", "t", "y", " ", "C", "o", "l", "l", "e", "g",
         "e", " ", "L", "o", "n", "d", "o", "n">>,
       <<"T", "h", "e", " ", "L", "o", "n", "d", "o", "n", " ", "S", "c", "h", "o", "o", "l",
         " ", "o", "f", " ", "E", "c", "o", "n", "o", "m", "i", "c", "s", " ", "a", "n", "d",
         " ", "P", "o", "l", "i", "t", "i", "c", "a", "l", " ", "S", "c", "i", "e", "n", "c",
         "e">>,
       <<"K", "i", "n", "g", "'", "s", " ", "C", "o", "l", "l", "e", "g", "e", " ", "L", "o",
         "n", "d", "o", "n">>,
       <<"U", "n", "i", "v", "e", "r", "s", "i", "t", "y", " ", "o", "f", " ", "O", "x", "f",
         "o", "r", "d">>,
       <<"U", "n", "i", "v", "e", "r", "s", "i", "t", "y", " ", "o", "f", " ", "C", "a", "m",
         "b", "r", "i", "d", "g", "e">> >>

\* any(vip_school.lower() in str(school).lower() for vip_school in vip_schools)
IsVip(school) ==
    \E k \in 1..Len(vip_schools) : Contains(Lower(PyStr(school)), Lower(vip_schools[k]))

\* The entries of one sheet, rows 3..max_row: school, program and result are read at
\* columns 1, 2 and 3
SheetVip(ws) ==
    LET client_name == extract_name_from_hyperlink(CellValue(ws, 1, 1))
        rows == SelectSeq([k \in 1..(MaxRow(ws) - 2) |-> k + 2],
                          LAMBDA r : IsVip(CellValue(ws, r, 1)))
    IN [k \in 1..Len(rows) |->
          [name |-> client_name, clientId |-> ws.title, row |-> rows[k],
           institution |-> CellValue(ws, rows[k], 1),
           program |-> CellValue(ws, rows[k], 2),
           result |-> CellValue(ws, rows[k], 3)]]

RECURSIVE CollectVip(_)
CollectVip(wb) ==
    IF wb = <<>> THEN <<>>
    ELSE (IF Head(wb).title \in {SUMMARY_SHEET, VIP_SHEET} THEN <<>>
          ELSE SheetVip(Head(wb))) \o CollectVip(Tail(wb))

\* x or ''
OrEmpty(x) == IF Truthy(x) THEN x ELSE StrV(<<>>)

\* 0 if '获得' in str(x['申请结果'] or '') else 1
ObtainedFlag(result) == IF Contains(PyStr(OrEmpty(result)), OBTAINED) THEN 0 ELSE 1

\* The sort key of line 396-400 of a sorts strictly before that of b
VipKeyLess(a, b) ==
    LET sa == OrEmpty(a.institution).s
        sb == OrEmpty(b.institution).s
        fa == ObtainedFlag(a.result)
        fb == ObtainedFlag(b.result)
    IN \/ StrLess(sa, sb)
       \/ sa = sb /\ fa < fb
       \/ sa = sb /\ fa = fb /\ StrLess(OrEmpty(a.name).s, OrEmpty(b.name).s)

RECURSIVE InsertVip(_, _)
InsertVip(sorted, x) ==
    IF sorted = <<>> THEN <<x>>
    ELSE IF VipKeyLess(x, Head(sorted)) THEN <<x>> \o sorted
    ELSE <<Head(sorted)>> \o InsertVip(Tail(sorted), x)

\* vip_data.sort(key=...): list.sort is stable
RECURSIVE SortVip(_)
SortVip(data) ==
    IF data = <<>> THEN <<>>
    ELSE InsertVip(SortVip(SubSeq(data, 1, Len(data) - 1)), data[Len(data)])

VipData(wb) == SortVip(CollectVip(wb))

\* 未递-撤销申请需求
S_CANCEL == <<"U+672A", "U+9012", "-", "U+64A4", "U+9500", "U+7533", "U+8BF7", "U+9700", "U+6C42">>

\* The conditional format of the result cell of the VIP sheet, lines 414-425:
\* <<fill, font>>
VipStyle(result) ==
    IF Truthy(result) /\ Contains(PyStr(result), OBTAINED) THEN <<"008000", "FFFFFF bold">>
    ELSE IF result \in {StrV(S_REJECT), StrV(S_WITHDRAWN), StrV(S_CANCEL)}
    THEN <<"808080", "bold">>
    ELSE IF result = StrV(S_SUBMITTED) THEN <<"FFC222", "bold">>
    ELSE <<"", "">>

(***************************************************************************)
(* The enrollment columns and their choice lists: lines 509-650            *)
(***************************************************************************)
\* options['id'] == student_id, student_id an int
IdIs(id, n) == id.t \in {"int", "float"} /\ id.n = n

\* Lines 537-547: one entry for every source row whose id cell holds a true value from
\* which extract_id_from_hyperlink gets a true value, in row order
OptionRows(ws) ==
    LET ids == [i \in 1..Len(ws) |-> extract_id_from_hyperlink(ws[i].v)]
        kept == SelectSeq([i \in 1..Len(ws) |-> i],
                          LAMBDA i : Truthy(ws[i].v) /\ Truthy(ids[i]))
    IN [k \in 1..Len(kept) |-> [row |-> kept[k] + 1, id |-> ids[kept[k]]]]

\* The sheets whose name int() accepts, lines 550-555
IdSheets(wb) ==
    {k \in 1..Len(wb) :
        wb[k].title \notin {SUMMARY_SHEET, VIP_SHEET} /\ ~IntFails(wb[k].title)}

\* clean_excel_value(str(v).strip())
CleanOption(v) == clean_excel_value(StrV(Strip(PyStr(v)))).s

\* Lines 559-566: the cleaned <<school, program>> of the rows of a sheet that hold both
SheetPairs(ws) ==
    {<<CleanOption(CellValue(ws, r, 1)), CleanOption(CellValue(ws, r, 2))>> :
        r \in {q \in 3..MaxRow(ws) :
                 Truthy(CellValue(ws, q, 1)) /\ Truthy(CellValue(ws, q, 2))}}

\* Lines 569-573: the first entry whose id is n takes the options, then the loop breaks
FirstWithId(rows, n) ==
    IF \E k \in 1..Len(rows) : IdIs(rows[k].id, n)
    THEN CHOOSE k \in 1..Len(rows) :
            IdIs(rows[k].id, n) /\ \A j \in 1..(k - 1) : ~IdIs(rows[j].id, n)
    ELSE 0

\* student_options after lines 537-576
StudentOptions(ws, wb) ==
    LET rows == OptionRows(ws)
        PairsOf(k) ==
            UNION {SheetPairs(wb[j]) :
                     j \in {i \in IdSheets(wb) : FirstWithId(rows, IntOf(wb[i].title)) = k}}
    IN [k \in 1..Len(rows) |->
          [row |-> rows[k].row, id |-> rows[k].id,
           schools |-> {p[1] : p \in PairsOf(k)},
           programs |-> {p[2] : p \in PairsOf(k)}]]

\* list(a_set): the elements in some order
Orderings(S) == {q \in [1..Cardinality(S) -> S] : \A x \in S : \E i \in DOMAIN q : q[i] = x}

\* One choice of schools_list and programs_list for every entry
Listings(options) ==
    LET lists == UNION {Orderings(options[k].schools) \cup Orderings(options[k].programs) :
                          k \in 1..Len(options)}
    IN {f \in [1..Len(options) -> [schools_list : lists, programs_list : lists]] :
          \A k \in 1..Len(options) :
             /\ f[k].schools_list \in Orderings(options[k].schools)
             /\ f[k].programs_list \in Orderings(options[k].programs)}

\* Line 581: an entry without options is skipped
HasOptions(o) == o.schools # {} \/ o.programs # {}

\* max(len(options['schools']), len(options['programs']), 1)
MaxCount(o) == Max(Max(Cardinality(o.schools), Cardinality(o.programs)), 1)

\* current_row when the loop of line 580 reaches entry k
RECURSIVE OptionsStartRow(_, _)
OptionsStartRow(options, k) ==
    IF k = 1 THEN 1
    ELSE OptionsStartRow(options, k - 1)
           + (IF HasOptions(options[k - 1]) THEN MaxCount(options[k - 1]) + 2 ELSE 0)

\* ID_<id>_学校, ID_<id>_专业
SchoolHeader(id) == <<"I", "D", "_">> \o PyStr(id) \o <<"_", "U+5B66", "U+6821">>
ProgramHeader(id) == <<"I", "D", "_">> \o PyStr(id) \o <<"_", "U+4E13", "U+4E1A">>

\* The cells of the options sheet after lines 580-612, under the listing f
OptionCells(options, f) ==
    LET written == {k \in 1..Len(options) : HasOptions(options[k])}
        At(k) == OptionsStartRow(options, k)
        dom == UNION {{<<At(k), 1>>, <<At(k), 2>>}
                        \cup {<<At(k) + i, 1>> : i \in 1..Len(f[k].schools_list)}
                        \cup {<<At(k) + i, 2>> : i \in 1..Len(f[k].programs_list)} :
                      k \in written}
        Block(rc) == CHOOSE k \in written : At(k) <= rc[1] /\ rc[1] <= At(k) + MaxCount(options[k])
        Value(rc) ==
            LET k == Block(rc)
            IN IF rc[1] = At(k)
               THEN (IF rc[2] = 1 THEN SchoolHeader(options[k].id)
                     ELSE ProgramHeader(options[k].id))
               ELSE IF rc[2] = 1 THEN f[k].schools_list[rc[1] - At(k)]
               ELSE f[k].programs_list[rc[1] - At(k)]
    IN [rc \in dom |-> Value(rc)]

\* The list constraints of lines 615-645: the cell row/column of the source sheet takes
\* its choices from rows first..last of column list ("A" or "B") of the options sheet
Validations(options, last_col) ==
    LET written == {k \in 1..Len(options) : HasOptions(options[k])}
        At(k) == OptionsStartRow(options, k)
    IN {[row |-> options[k].row, column |-> last_col + 1, list |-> "A",
         first |-> At(k) + 1, last |-> At(k) + Cardinality(options[k].schools)] :
           k \in {j \in written : options[j].schools # {}}}
       \cup
       {[row |-> options[k].row, column |-> last_col + 2, list |-> "B",
         first |-> At(k) + 1, last |-> At(k) + Cardinality(options[k].programs)] :
           k \in {j \in written : options[j].programs # {}}}

(***************************************************************************)
(* State                                                                   *)
(***************************************************************************)
VARIABLES
    pc,            \* the position of create_offer_sheets
    csv,           \* template_file: [columns, rows], the uploaded flat dataset
    kalen_file,    \* kalen_file: the selected sheet of the uploaded workbook
    now,           \* the day datetime.now() falls on
    template_df,   \* the rows of the data frame
    existing_columns,
    tmp_path,      \* the temp file: "unset", "exists", "removed", or "unlink_failed"
                   \* (it exists and os.unlink raised)
    id_values,     \* row -> original identifier
    offer_wb,      \* the sheets of the generated workbook, in order
    clients,       \* the identifiers the loop of line 200 has not reached yet
    kalen_ws,      \* the id column of the reloaded sheet, from row 2 on
    summary_data,  \* the rows of the deadline rollup sheet
    saves,         \* per workbook: the attempts, failures and sleeps of its save
    zip_buffer,    \* the names of the entries written to the archive
    result,        \* what create_offer_sheets returned: [kind, entries]
    runs,          \* invocations started so far
    value,         \* the argument of the extractors
    written,       \* <<u, t, sep>> when value was written as =HYPERLINK("u"<sep>"t"),
                   \* else <<>>
    idResult,      \* extract_id_from_hyperlink(value)
    nameResult,    \* extract_name_from_hyperlink(value)
    vip_data,      \* the rows of the VIP rollup sheet
    student_options, \* source row -> [id, schools, programs], in source-row order
    options_ws,    \* the cells of the hidden options sheet: <<row, column>> -> text
    validations,   \* the list constraints added to the source sheet
    error,         \* the exception that ended the run, "" when none did
    styles         \* the fills the two status colour rules give to value

vars ==
    <<pc, csv, kalen_file, now, template_df, existing_columns, tmp_path, id_values,
      offer_wb, clients, kalen_ws, summary_data, saves, zip_buffer, result, runs, value,
      written, idResult, nameResult, vip_data, student_options, options_ws, validations,
      error, styles>>

\* save_workbook_with_retry(workbook, max_retries=3, delay=2)
max_retries == 3

Today == 100

\* The call has not returned; it returned None; it returned the archive zip_buffer
Running == [kind |-> "running", entries |-> <<>>]
ReturnedNone == [kind |-> "None", entries |-> <<>>]
Returned(buffer) == [kind |-> "zip", entries |-> buffer]

NoSave == [state |-> "idle", attempt |-> 0, failed |-> 0, succeeded |-> 0, slept |-> 0]

\* The state before create_offer_sheets is called on the two uploads
Start(c, k, d) ==
    /\ pc = "load_template"
    /\ csv = c
    /\ kalen_file = k
    /\ now = d
    /\ template_df = <<>>
    /\ existing_columns = <<>>
    /\ tmp_path = "unset"
    /\ id_values = <<>>
    /\ offer_wb = <<>>
    /\ clients = <<>>
    /\ kalen_ws = <<>>
    /\ summary_data = <<>>
    /\ saves = [w \in {"offer", "kalen"} |-> NoSave]
    /\ zip_buffer = <<>>
    /\ result = Running
    /\ runs = 1
    /\ value = NoneV
    /\ written = <<>>
    /\ idResult = NoneV
    /\ nameResult = NoneV
    /\ vip_data = <<>>
    /\ student_options = <<>>
    /\ options_ws = <<>>
    /\ validations = {}
    /\ error = ""
    /\ styles = <<>>

(***************************************************************************)
(* create_offer_sheets, one action per stage                               *)
(***************************************************************************)
\* Lines 98-146.  Line 145 raises KeyError when 押金截止日期 is not a column.
LoadTemplate ==
    /\ pc = "load_template"
    /\ existing_columns' = ExistingColumns(csv.columns)
    /\ IF "depositDeadline" \in csv.columns
       THEN /\ template_df' = ReadTemplate(csv)
            /\ pc' = "write_temp"
       ELSE /\ template_df' = <<>>
            /\ pc' = "except"
    /\ error' = IF pc' = "except" THEN "KeyError" ELSE error
    /\ UNCHANGED <<csv, kalen_file, now, tmp_path, id_values, offer_wb, clients, kalen_ws,
                   summary_data, saves, zip_buffer, result, runs, value, written, idResult,
                   nameResult, vip_data, student_options, options_ws, validations, styles>>

\* Lines 151-153
WriteTemp ==
    /\ pc = "write_temp"
    /\ tmp_path' = "exists"
    /\ pc' = "load_kalen"
    /\ UNCHANGED <<csv, kalen_file, now, template_df, existing_columns, id_values, offer_wb,
                   clients, kalen_ws, summary_data, saves, zip_buffer, result, runs, value,
                   written, idResult, nameResult, vip_data, student_options, options_ws,
                   validations, error, styles>>

\* tmp.write raises at line 152: the file was created with delete=False and stays
WriteTempFails ==
    /\ pc = "write_temp"
    /\ tmp_path' = "exists"
    /\ pc' = "except"
    /\ error' = "OSError"
    /\ UNCHANGED <<csv, kalen_file, now, template_df, existing_columns, id_values, offer_wb,
                   clients, kalen_ws, summary_data, saves, zip_buffer, result, runs, value,
                   written, idResult, nameResult, vip_data, student_options, options_ws,
                   validations, styles>>

\* Lines 155-180
LoadKalen ==
    /\ pc = "load_kalen"
    /\ id_values' = CaptureIds(kalen_file)
    /\ pc' = "new_workbook"
    /\ UNCHANGED <<csv, kalen_file, now, template_df, existing_columns, tmp_path, offer_wb,
                   clients, kalen_ws, summary_data, saves, zip_buffer, result, runs, value,
                   written, idResult, nameResult, vip_data, student_options, options_ws,
                   validations, error, styles>>

\* Lines 184-197: Workbook() holds the sheet "Sheet".  Line 193 raises KeyError when
\* 客户id is not a column.
NewWorkbook ==
    /\ pc = "new_workbook"
    /\ offer_wb' = <<[title |-> DEFAULT_SHEET, cells |-> <<>>]>>
    /\ IF "clientId" \in csv.columns
       THEN /\ clients' = Unique(template_df)
            /\ pc' = "clients"
       ELSE /\ clients' = <<>>
            /\ pc' = "except"
    /\ error' = IF pc' = "except" THEN "KeyError" ELSE error
    /\ UNCHANGED <<csv, kalen_file, now, template_df, existing_columns, tmp_path, id_values,
                   kalen_ws, summary_data, saves, zip_buffer, result, runs, value, written,
                   idResult, nameResult, vip_data, student_options, options_ws, validations,
                   styles>>

\* One turn of the loop of lines 200-328.  Line 218 raises KeyError when 申请结果 is
\* not a column; a client without rows is skipped (line 233).
BuildClientSheet ==
    /\ pc = "clients"
    /\ clients # <<>>
    /\ LET client_id == Head(clients)
           client_data == SortRows(ClientRows(template_df, client_id))
       IN IF "resultStatus" \notin csv.columns
          THEN /\ pc' = "except"
               /\ UNCHANGED <<offer_wb, clients>>
          ELSE /\ pc' = "clients"
               /\ clients' = Tail(clients)
               /\ offer_wb' =
                    IF Len(client_data) = 0 THEN offer_wb
                    ELSE PutSheet(offer_wb,
                                  ClientSheet(client_id, client_data, existing_columns, now))
    /\ error' = IF pc' = "except" THEN "KeyError" ELSE error
    /\ UNCHANGED <<csv, kalen_file, now, template_df, existing_columns, tmp_path, id_values,
                   kalen_ws, summary_data, saves, zip_buffer, result, runs, value, written,
                   idResult, nameResult, vip_data, student_options, options_ws, validations,
                   styles>>

\* Lines 331-332
RemoveDefaultSheet ==
    /\ pc = "clients"
    /\ clients = <<>>
    /\ offer_wb' = IF HasSheet(offer_wb, DEFAULT_SHEET)
                   THEN RemoveSheet(offer_wb, DEFAULT_SHEET) ELSE offer_wb
    /\ pc' = "link_ids"
    /\ UNCHANGED <<csv, kalen_file, now, template_df, existing_columns, tmp_path, id_values,
                   clients, kalen_ws, summary_data, saves, zip_buffer, result, runs, value,
                   written, idResult, nameResult, vip_data, student_options, options_ws,
                   validations, error, styles>>

\* Lines 336-345
UpdateLinks ==
    /\ pc = "link_ids"
    /\ kalen_ws' = LinkIds(kalen_file, id_values)
    /\ pc' = "vip"
    /\ UNCHANGED <<csv, kalen_file, now, template_df, existing_columns, tmp_path, id_values,
                   offer_wb, clients, summary_data, saves, zip_buffer, result, runs, value,
                   written, idResult, nameResult, vip_data, student_options, options_ws,
                   validations, error, styles>>

\* Lines 348-431
BuildVipSheet ==
    /\ pc = "vip"
    /\ vip_data' = VipData(offer_wb)
    /\ pc' = "deadline"
    /\ UNCHANGED <<csv, kalen_file, now, template_df, existing_columns, tmp_path, id_values,
                   offer_wb, clients, kalen_ws, summary_data, saves, zip_buffer, result, runs,
                   value, written, idResult, nameResult, student_options, options_ws,
                   validations, error, styles>>

\* Lines 434-506
BuildDeadlineSheet ==
    /\ pc = "deadline"
    /\ summary_data' = SummaryData(offer_wb)
    /\ pc' = "options"
    /\ UNCHANGED <<csv, kalen_file, now, template_df, existing_columns, tmp_path, id_values,
                   offer_wb, clients, kalen_ws, saves, zip_buffer, result, runs, value,
                   written, idResult, nameResult, vip_data, student_options, options_ws,
                   validations, error, styles>>

\* Lines 509-650.  Line 538 raises TypeError when the sheet has no 客户id column and
\* holds a row below its first: kalen_ws.cell(row=row, column=None).
BuildOptions ==
    /\ pc = "options"
    /\ IF kalen_file.id_col = 0 /\ Len(kalen_ws) > 0
       THEN /\ pc' = "except"
            /\ error' = "TypeError"
            /\ UNCHANGED <<student_options, options_ws, validations, saves>>
       ELSE /\ student_options' = StudentOptions(kalen_ws, offer_wb)
            /\ \E f \in Listings(student_options') :
                  options_ws' = OptionCells(student_options', f)
            /\ validations' = Validations(student_options', kalen_file.ncols)
            /\ pc' = "save_offer"
            /\ saves' = [saves EXCEPT !["offer"].state = "try"]
            /\ error' = error
    /\ UNCHANGED <<csv, kalen_file, now, template_df, existing_columns, tmp_path, id_values,
                   offer_wb, clients, kalen_ws, summary_data, zip_buffer, result, runs, value,
                   written, idResult, nameResult, vip_data, styles>>

(***************************************************************************)
(* save_workbook_with_retry: lines 78-92, called at lines 655 and 658      *)
(***************************************************************************)
Saving == IF pc = "save_offer" THEN "offer" ELSE "kalen"

\* workbook.save(output) succeeds: lines 83-85
SaveSucceeds ==
    /\ pc \in {"save_offer", "save_kalen"}
    /\ saves[Saving].state = "try"
    /\ saves' = [saves EXCEPT ![Saving].state = "saved",
                              ![Saving].succeeded = @ + 1,
                              !["kalen"].state =
                                  IF pc = "save_offer" THEN "try" ELSE "saved"]
    /\ pc' = IF pc = "save_offer" THEN "save_kalen" ELSE "zip"
    /\ UNCHANGED <<csv, kalen_file, now, template_df, existing_columns, tmp_path, id_values,
                   offer_wb, clients, kalen_ws, summary_data, zip_buffer, result, runs, value,
                   written, idResult, nameResult, vip_data, student_options, options_ws,
                   validations, error, styles>>

\* The retry test one attempt short
RetryAgainEarly(attempt) == attempt < max_retries - 2

\* attempt < max_retries - 1, line 87
RetryAgain(attempt) == attempt < max_retries - 1

\* workbook.save(output) raises: lines 86-92
SaveFails ==
    /\ pc \in {"save_offer", "save_kalen"}
    /\ saves[Saving].state = "try"
    /\ IF RetryAgain(saves[Saving].attempt)
       THEN /\ saves' = [saves EXCEPT ![Saving].state = "sleep", ![Saving].failed = @ + 1]
            /\ pc' = pc
       ELSE /\ saves' = [saves EXCEPT ![Saving].state = "raised", ![Saving].failed = @ + 1]
            /\ pc' = "except"
    /\ error' = IF pc' = "except" THEN "SaveError" ELSE error
    /\ UNCHANGED <<csv, kalen_file, now, template_df, existing_columns, tmp_path, id_values,
                   offer_wb, clients, kalen_ws, summary_data, zip_buffer, result, runs, value,
                   written, idResult, nameResult, vip_data, student_options, options_ws,
                   validations, styles>>

\* time.sleep(delay) returns and the loop takes its next attempt: lines 89, 81.  When
\* range(max_retries) is used up the function ends without a return statement: its
\* caller gets None.
SaveSleeps ==
    /\ pc \in {"save_offer", "save_kalen"}
    /\ saves[Saving].state = "sleep"
    /\ IF saves[Saving].attempt + 1 < max_retries
       THEN /\ saves' = [saves EXCEPT ![Saving].state = "try",
                                      ![Saving].slept = @ + 1,
                                      ![Saving].attempt = @ + 1]
            /\ pc' = pc
       ELSE /\ saves' = [saves EXCEPT ![Saving].state = "none",
                                      ![Saving].slept = @ + 1,
                                      ![Saving].attempt = @ + 1,
                                      !["kalen"].state =
                                          IF pc = "save_offer" THEN "try" ELSE "none"]
            /\ pc' = IF pc = "save_offer" THEN "save_kalen" ELSE "zip"
    /\ UNCHANGED <<csv, kalen_file, now, template_df, existing_columns, tmp_path, id_values,
                   offer_wb, clients, kalen_ws, summary_data, zip_buffer, result, runs, value,
                   written, idResult, nameResult, vip_data, student_options, options_ws,
                   validations, error, styles>>

(***************************************************************************)
(* The archive, the temp file, the return: lines 660-682                   *)
(***************************************************************************)
\* zipf.writestr of lines 664 and 666, one entry a step
\* offer_output.getvalue() raises AttributeError when the save returned None.
WriteZipEntry ==
    /\ pc = "zip"
    /\ IF saves[IF zip_buffer = <<>> THEN "offer" ELSE "kalen"].state = "none"
       THEN /\ zip_buffer' = zip_buffer
            /\ pc' = "except"
       ELSE /\ zip_buffer' =
                 Append(zip_buffer, IF zip_buffer = <<>> THEN OFFER_FILE ELSE KALEN_FILE)
            /\ pc' = IF zip_buffer = <<>> THEN "zip" ELSE "unlink"
    /\ UNCHANGED <<csv, kalen_file, now, template_df, existing_columns, tmp_path, id_values,
                   offer_wb, clients, kalen_ws, summary_data, saves, result, runs, value,
                   written, idResult, nameResult, vip_data, student_options, options_ws,
                   validations, error, styles>>

\* Lines 671-674: os.unlink removes the file, or raises and is passed over
Unlink ==
    /\ pc = "unlink"
    /\ tmp_path' \in {"removed", "unlink_failed"}
    /\ pc' = "return"
    /\ UNCHANGED <<csv, kalen_file, now, template_df, existing_columns, id_values, offer_wb,
                   clients, kalen_ws, summary_data, saves, zip_buffer, result, runs, value,
                   written, idResult, nameResult, vip_data, student_options, options_ws,
                   validations, error, styles>>

\* Line 676
ReturnZip ==
    /\ pc = "return"
    /\ result' = Returned(zip_buffer)
    /\ pc' = "done"
    /\ UNCHANGED <<csv, kalen_file, now, template_df, existing_columns, tmp_path, id_values,
                   offer_wb, clients, kalen_ws, summary_data, saves, zip_buffer, runs, value,
                   written, idResult, nameResult, vip_data, student_options, options_ws,
                   validations, error, styles>>

\* The stages inside the try of line 97 in which a library call can raise: reading
\* the CSV, writing and loading the workbook, building sheets, writing the archive
Fallible ==
    {"load_template", "write_temp", "load_kalen", "new_workbook", "clients", "link_ids",
     "vip", "deadline", "options", "zip"}

\* An exception leaves the stage
Raise ==
    /\ pc \in Fallible
    /\ pc' = "except"
    /\ error' = "Exception"
    /\ UNCHANGED <<csv, kalen_file, now, template_df, existing_columns, tmp_path, id_values,
                   offer_wb, clients, kalen_ws, summary_data, saves, zip_buffer, result, runs,
                   value, written, idResult, nameResult, vip_data, student_options, options_ws,
                   validations, styles>>

\* A handler that hands back whatever the archive holds so far
ExceptResultKeepsBuffer(buffer) == Returned(buffer)

\* What the handler of line 678 returns
ExceptResult(buffer) == ReturnedNone

\* Lines 678-682
Except ==
    /\ pc = "except"
    /\ result' = ExceptResult(zip_buffer)
    /\ pc' = "done"
    /\ UNCHANGED <<csv, kalen_file, now, template_df, existing_columns, tmp_path, id_values,
                   offer_wb, clients, kalen_ws, summary_data, saves, zip_buffer, runs, value,
                   written, idResult, nameResult, vip_data, student_options, options_ws,
                   validations, error, styles>>

Next ==
    \/ Raise
    \/ Except
    \/ LoadTemplate
    \/ WriteTemp
    \/ WriteTempFails
    \/ LoadKalen
    \/ NewWorkbook
    \/ BuildClientSheet
    \/ RemoveDefaultSheet
    \/ UpdateLinks
    \/ BuildVipSheet
    \/ BuildDeadlineSheet
    \/ BuildOptions
    \/ SaveSucceeds
    \/ SaveFails
    \/ SaveSleeps
    \/ WriteZipEntry
    \/ Unlink
    \/ ReturnZip

(***************************************************************************)
(* Inputs                                                                  *)
(***************************************************************************)
MaxRows == 1

AllColumns == {columns_to_keep[i] : i \in 1..Len(columns_to_keep)}

SeqsUpTo(S, n) == UNION {[1..k -> S] : k \in 0..n}

\* 张三, 李四
NAME_ZHANG == <<"U+5F20", "U+4E09">>
NAME_LI == <<"U+674E", "U+56DB">>

UCL == <<"U", "C", "L">>
OXFORD == <<"O", "x", "f", "o", "r", "d">>
MSC == <<"M", "S", "c">>

ID_1001 == <<"1", "0", "0", "1">>
ID_1002 == <<"1", "0", "0", "2">>

NoDate == [k |-> "empty", d |-> 0]
OnDay(d) == [k |-> "date", d |-> d]

\* One line of the CSV file
Record(id, name, status, deadline) ==
    [clientId |-> id, name |-> name, institution |-> StrV(UCL), program |-> StrV(MSC),
     resultStatus |-> status, depositDeadline |-> deadline]

Csv(columns, rows) == [columns |-> columns, rows |-> rows]

\* A sheet with 客户id in column 1 of row 1 and three columns
KalenSheet(ids) == [id_col |-> 1, ncols |-> 3, ids |-> ids]

\* A sheet without a 客户id column
NoIdSheet == [id_col |-> 0, ncols |-> 3, ids |-> <<>>]

ControlRecords ==
    {Record(ID_1001, StrV(NAME_ZHANG), StrV(S_UO), OnDay(Today + 10)),
     Record(ID_1002, NaN, StrV(S_REJECT), NoDate)}

ControlColumns ==
    {AllColumns, AllColumns \ {"depositDeadline"}, AllColumns \ {"clientId"},
     AllColumns \ {"resultStatus"}}

\* The same with one row below the header row
NoIdRowSheet == [id_col |-> 0, ncols |-> 3, ids |-> <<Stored(NoneV, NoneV)>>]

\* A sheet whose one client the flat dataset does not hold
OtherClientSheet == KalenSheet(<<Stored(IntV(2000), NoneV)>>)

ControlSheets == {NoIdSheet, NoIdRowSheet, KalenSheet(<<Stored(IntV(1001), NoneV)>>)}

\* One invocation of create_offer_sheets, on every input of the sets above
Init ==
    \E columns \in ControlColumns, rows \in SeqsUpTo(ControlRecords, MaxRows),
       sheet \in ControlSheets :
        Start(Csv(columns, rows), sheet, Today)

Spec == Init /\ [][Next]_vars

\* The function runs to its return: no stage waits on anything but itself
FairSpec == Init /\ [][Next]_vars /\ WF_vars(Next)

(***************************************************************************)
(* C1: create_offer_sheets never returns partial output: whatever stage    *)
(* fails, it returns the archive with exactly the two entries, in order    *)
(* "Offer 跟进.xlsx" and "申请跟进.xlsx", or None.                         *)
(***************************************************************************)
NoPartialOutput ==
    /\ pc = "done" <=> result # Running
    /\ result.kind = "zip" =>
         /\ result.entries = <<OFFER_FILE, KALEN_FILE>>
         /\ \A w \in {"offer", "kalen"} : saves[w].state = "saved"
    /\ result.kind = "None" => result.entries = <<>>

\* The archive held one entry when writing it failed, and None was returned
PartialZipDiscarded == pc = "done" /\ result.kind = "None" /\ Len(zip_buffer) = 1

(***************************************************************************)
(* C2: in every run that created the temp file, the file is gone when      *)
(* create_offer_sheets returns, with the archive or with None (os.unlink   *)
(* raising being passed over).                                             *)
(***************************************************************************)
TempFileRemoved == pc = "done" => tmp_path # "exists"

(***************************************************************************)
(* C3: save_workbook_with_retry makes at most max_retries attempts, none   *)
(* after a success, sleeps only between two attempts, raises when the last *)
(* attempt fails, which makes create_offer_sheets return None, and always  *)
(* ends.                                                                   *)
(***************************************************************************)
RetryBounded ==
    \A w \in {"offer", "kalen"} :
        LET sv == saves[w]
        IN /\ sv.failed + sv.succeeded <= max_retries
           /\ sv.succeeded <= 1
           /\ sv.slept <= max_retries - 1
           /\ sv.state \in {"idle", "try", "sleep", "saved", "raised"}
           /\ sv.state \in {"idle", "try"} => sv.succeeded = 0 /\ sv.slept = sv.failed
           /\ sv.state = "sleep" => sv.succeeded = 0 /\ sv.slept + 1 = sv.failed
           /\ sv.state = "saved" => sv.succeeded = 1 /\ sv.slept = sv.failed
           /\ sv.state = "raised" =>
                /\ sv.failed = max_retries /\ sv.succeeded = 0
                /\ sv.slept = max_retries - 1
                /\ pc \in {"except", "done"}
                /\ result.kind # "zip"

BoundedRetry ==
    /\ []RetryBounded
    /\ \A w \in {"offer", "kalen"} :
         (saves[w].state = "try") ~> (saves[w].state \in {"saved", "raised"})
    /\ \A w \in {"offer", "kalen"} :
         (saves[w].state = "raised") ~> (pc = "done" /\ result = ReturnedNone)

\* The third attempt failed after two sleeps and the call returned None
ThirdAttemptRaised ==
    /\ pc = "done"
    /\ result = ReturnedNone
    /\ saves["kalen"].state = "raised"
    /\ saves["kalen"].failed = max_retries
    /\ saves["kalen"].slept = max_retries - 1
    /\ saves["offer"].state = "saved"
    /\ saves["offer"].failed = 1

(***************************************************************************)
(* Reading the generated workbook back, for the claims about its sheets    *)
(***************************************************************************)
\* The program of record i is made P<i>, so a rendered row names its record
Tagged(rows) ==
    [i \in 1..Len(rows) |-> [rows[i] EXCEPT !.program = StrV(<<"P", Digits[i + 1]>>)]]

\* The record a data row was rendered from: what its program cell (column 2) names
RecordOf(ws, r) == DigitVal(CellValue(ws, r, 2).s[2])

\* The data rows of a sheet
DataRows(ws) == 3..MaxRow(ws)

\* The loop of line 200 has ended and the workbook is complete
SheetsBuilt ==
    pc \in {"link_ids", "vip", "deadline", "options", "save_offer", "save_kalen", "zip",
           "unlink", "return"}

\* <<sheet, row>> of every data row of the generated workbook
AllDataRows == {<<k, r>> : k \in 1..Len(offer_wb), r \in 3..(Len(csv.rows) + 2)} \cap
               {kr \in (1..Len(offer_wb)) \X (3..(Len(csv.rows) + 2)) :
                   kr[2] \in DataRows(offer_wb[kr[1]])}

(***************************************************************************)
(* C4: once the loop has handled every distinct 客户id, every record of    *)
(* the flat dataset is a data row of exactly one per-client sheet, no data *)
(* row is anything else, and no two sheets are of the same client.         *)
(***************************************************************************)
MaxRecords == 3

ID_SLASH == <<"A", "/", "B">>
ID_UNDERSCORE == <<"A", "_", "B">>

GroupRecords ==
    {Record(id, StrV(NAME_ZHANG), StrV(S_UO), NoDate) :
        id \in {ID_1001, ID_SLASH, ID_UNDERSCORE, <<>>}}

InitGroup ==
    \E rows \in SeqsUpTo(GroupRecords, MaxRecords) :
        Start(Csv(AllColumns, Tagged(rows)), KalenSheet(<<Stored(IntV(1001), NoneV)>>), Today)

SpecGroup == InitGroup /\ [][Next]_vars

GroupingPreservesRecords ==
    SheetsBuilt =>
        /\ \A i \in 1..Len(csv.rows) :
             Cardinality({kr \in AllDataRows : RecordOf(offer_wb[kr[1]], kr[2]) = i}) = 1
        /\ \A kr \in AllDataRows : RecordOf(offer_wb[kr[1]], kr[2]) \in 1..Len(csv.rows)
        /\ \A k1, k2 \in 1..Len(offer_wb) :
             CellValue(offer_wb[k1], 1, 1) = CellValue(offer_wb[k2], 1, 1) => k1 = k2

(***************************************************************************)
(* C5: the data rows of every per-client sheet ascend by (priorityRank,    *)
(* resultStatus), priorityRank being 1 for 获得CAS/COE, 2 for 获得UO, 3    *)
(* for 获得CO, 4 for 拒信, 5 for 大学撤销 and 6 otherwise, and rows of     *)
(* equal (priorityRank, resultStatus) keep the order of their records.     *)
(* A missing status ranks 6 and sorts behind every status text.            *)
(***************************************************************************)
RankStatuses ==
    {StrV(S_UO), StrV(S_REJECT), StrV(S_SUBMITTED), StrV(S_GIVEUP), StrV(NOT_OBTAINED), NaN}

RankRecords ==
    {Record(ID_1001, StrV(NAME_ZHANG), st, NoDate) : st \in RankStatuses}
        \cup {Record(ID_1002, StrV(NAME_LI), StrV(S_CAS), NoDate)}

InitRank ==
    \E rows \in SeqsUpTo(RankRecords, MaxRecords) :
        Start(Csv(AllColumns, Tagged(rows)), OtherClientSheet, Today)

SpecRank == InitRank /\ [][Next]_vars

\* The rank the claim gives a status
PriorityRank(st) ==
    IF st = StrV(S_CAS) THEN 1
    ELSE IF st = StrV(S_UO) THEN 2
    ELSE IF st = StrV(S_CO) THEN 3
    ELSE IF st = StrV(S_REJECT) THEN 4
    ELSE IF st = StrV(S_WITHDRAWN) THEN 5
    ELSE 6

\* The status of a data row, as the data frame held it: column 3 of the sheet
StatusOf(ws, r) == CellValue(ws, r, 3)

\* (priorityRank, resultStatus) of row r1 is below that of row r2
KeyBelow(ws, r1, r2) ==
    LET s1 == StatusOf(ws, r1)
        s2 == StatusOf(ws, r2)
    IN \/ PriorityRank(s1) < PriorityRank(s2)
       \/ /\ PriorityRank(s1) = PriorityRank(s2)
          /\ ~IsNa(s1)
          /\ IsNa(s2) \/ StrLess(s1.s, s2.s)

RowsRanked ==
    SheetsBuilt =>
        \A k \in 1..Len(offer_wb) :
            \A r1, r2 \in DataRows(offer_wb[k]) :
                r1 < r2 =>
                    \/ KeyBelow(offer_wb[k], r1, r2)
                    \/ /\ StatusOf(offer_wb[k], r1) = StatusOf(offer_wb[k], r2)
                       /\ RecordOf(offer_wb[k], r1) < RecordOf(offer_wb[k], r2)

\* A sheet in which a later record was ranked above an earlier one, and two records of
\* one status kept their order
RankedAndStable ==
    /\ SheetsBuilt
    /\ \E k \in 1..Len(offer_wb) :
         /\ \E r1, r2 \in DataRows(offer_wb[k]) :
              /\ r1 < r2
              /\ RecordOf(offer_wb[k], r1) > RecordOf(offer_wb[k], r2)
              /\ StatusOf(offer_wb[k], r1) = StrV(S_UO)
              /\ StatusOf(offer_wb[k], r2) = StrV(S_REJECT)
         /\ \E r1, r2 \in DataRows(offer_wb[k]) :
              /\ r1 < r2
              /\ StatusOf(offer_wb[k], r1) = StatusOf(offer_wb[k], r2)

(***************************************************************************)
(* The two extractors applied to one cell value                            *)
(***************************************************************************)
Unset == [t |-> "unset", n |-> 0, s |-> <<>>]

ExtractId ==
    /\ pc = "extract"
    /\ idResult = Unset
    /\ idResult' = extract_id_from_hyperlink(value)
    /\ UNCHANGED <<pc, csv, kalen_file, now, template_df, existing_columns, tmp_path, id_values,
                   offer_wb, clients, kalen_ws, summary_data, saves, zip_buffer, result, runs,
                   value, written, nameResult, vip_data, student_options, options_ws,
                   validations, error, styles>>

ExtractName ==
    /\ pc = "extract"
    /\ nameResult = Unset
    /\ nameResult' = extract_name_from_hyperlink(value)
    /\ UNCHANGED <<pc, csv, kalen_file, now, template_df, existing_columns, tmp_path, id_values,
                   offer_wb, clients, kalen_ws, summary_data, saves, zip_buffer, result, runs,
                   value, written, idResult, vip_data, student_options, options_ws, validations,
                   error, styles>>

NextExtract == ExtractId \/ ExtractName

MaxText == 2

LinkChars == {"0", "7", "a", Quote}

Texts == SeqsUpTo(LinkChars, MaxText)

QuoteFree(w) == \A i \in 1..Len(w) : w[i] # Quote

\* =HYPERLINK("u"<sep>"t")
FormulaOf(u, t, sep) ==
    HYPERLINK \o <<"(", Quote>> \o u \o <<Quote>> \o sep \o <<Quote>> \o t \o <<Quote, ")">>

Separators == {<<",">>, <<",", " ">>}

\* Values that are not of the form =HYPERLINK("u","t")
OtherValues ==
    {StrV(w) : w \in Texts}
        \cup {StrV(HYPERLINK \o w) : w \in Texts}
        \cup {IntV(1001), IntV(0), FloatV(7), NaN, NoneV}

InitExtract ==
    /\ \/ \E u \in Texts, t \in Texts, sep \in Separators :
            /\ value = StrV(FormulaOf(u, t, sep))
            /\ written = <<u, t, sep>>
       \/ /\ value \in OtherValues
          /\ written = <<>>
    /\ idResult = Unset
    /\ nameResult = Unset
    /\ pc = "extract"
    /\ csv = Csv({}, <<>>)
    /\ kalen_file = NoIdSheet
    /\ now = Today
    /\ template_df = <<>>
    /\ existing_columns = <<>>
    /\ tmp_path = "unset"
    /\ id_values = <<>>
    /\ offer_wb = <<>>
    /\ clients = <<>>
    /\ kalen_ws = <<>>
    /\ summary_data = <<>>
    /\ saves = [w \in {"offer", "kalen"} |-> NoSave]
    /\ zip_buffer = <<>>
    /\ result = Running
    /\ runs = 0
    /\ vip_data = <<>>
    /\ student_options = <<>>
    /\ options_ws = <<>>
    /\ validations = {}
    /\ error = ""
    /\ styles = <<>>

SpecExtract == InitExtract /\ [][NextExtract]_vars

\* t is a run of decimal digits; the integer it writes
IsDecimal(t) == t # <<>> /\ \A i \in 1..Len(t) : t[i] \in {"0", "7"}

RECURSIVE DecimalOf(_)
DecimalOf(t) ==
    IF t = <<>> THEN 0
    ELSE 10 * DecimalOf(SubSeq(t, 1, Len(t) - 1)) + (IF t[Len(t)] = "7" THEN 7 ELSE 0)

(***************************************************************************)
(* C6 as stated: for every cell =HYPERLINK("u","t") the id extractor       *)
(* returns t as an integer and the name extractor returns t; for every     *)
(* value that is not of that form both return the value.                   *)
(***************************************************************************)
ExtractorsRecoverEveryText ==
    /\ written # <<>> =>
         /\ idResult # Unset => IsDecimal(written[2]) /\ idResult = IntV(DecimalOf(written[2]))
         /\ nameResult # Unset => nameResult = StrV(written[2])
    /\ written = <<>> =>
         /\ idResult # Unset => idResult = value
         /\ nameResult # Unset => nameResult = value

(***************************************************************************)
(* C6 amended: for every cell =HYPERLINK("u","t") whose u and t hold no    *)
(* double quote, the name extractor returns t, and the id extractor        *)
(* returns t as an integer when t is a run of decimal digits and the cell  *)
(* unchanged when t is empty or holds a letter; for every value that does  *)
(* not start with =HYPERLINK both return the value.                        *)
(***************************************************************************)
ExtractorsRecoverText ==
    /\ (written # <<>> /\ QuoteFree(written[1]) /\ QuoteFree(written[2])) =>
         /\ idResult # Unset =>
              idResult = IF IsDecimal(written[2]) THEN IntV(DecimalOf(written[2])) ELSE value
         /\ nameResult # Unset => nameResult = StrV(written[2])
    /\ ~(IsStr(value) /\ StartsWith(value.s, HYPERLINK)) =>
         /\ idResult # Unset => idResult = value
         /\ nameResult # Unset => nameResult = value

\* Both extractors have read =HYPERLINK("a", "07")
ExtractedSeven ==
    /\ written = <<<<"a">>, <<"0", "7">>, <<",", " ">>>>
    /\ value = StrV(FormulaOf(<<"a">>, <<"0", "7">>, <<",", " ">>))
    /\ idResult = IntV(7)
    /\ nameResult = StrV(<<"0", "7">>)

(***************************************************************************)
(* Running create_offer_sheets again on the workbook it returned           *)
(***************************************************************************)
MaxRuns == 3

MaxIdRows == 2

\* What a spreadsheet program shows for =HYPERLINK(target, "text"): the text
DisplayText(formula) ==
    LET parts == Split(formula.s, Quote) IN StrV(parts[Len(parts) - 1])

\* The returned workbook as it is uploaded again: as written (no formula has a cached
\* value), or opened and saved by a spreadsheet program (every formula has one)
AsWritten(cells) == cells

Recalculated(cells) ==
    [i \in 1..Len(cells) |->
        IF IsFormula(cells[i].v) THEN Stored(cells[i].v, DisplayText(cells[i].v))
        ELSE cells[i]]

\* The next invocation: same CSV file, the new 申请跟进.xlsx with its two added columns
Rerun ==
    /\ pc = "done"
    /\ result.kind = "zip"
    /\ runs < MaxRuns
    /\ \E ids \in {AsWritten(kalen_ws), Recalculated(kalen_ws)} :
         kalen_file' = [id_col |-> kalen_file.id_col, ncols |-> kalen_file.ncols + 2,
                        ids |-> ids]
    /\ pc' = "load_template"
    /\ template_df' = <<>>
    /\ existing_columns' = <<>>
    /\ tmp_path' = "unset"
    /\ id_values' = <<>>
    /\ offer_wb' = <<>>
    /\ clients' = <<>>
    /\ kalen_ws' = <<>>
    /\ summary_data' = <<>>
    /\ saves' = [w \in {"offer", "kalen"} |-> NoSave]
    /\ zip_buffer' = <<>>
    /\ result' = Running
    /\ runs' = runs + 1
    /\ vip_data' = <<>>
    /\ student_options' = <<>>
    /\ options_ws' = <<>>
    /\ validations' = {}
    /\ UNCHANGED <<csv, now, value, written, idResult, nameResult, error, styles>>

NextLinker == Next \/ Rerun

LinkerIds == {IntV(1001), IntV(0), StrV(ID_SLASH), NoneV}

InitLinker ==
    \E ids \in SeqsUpTo(LinkerIds, MaxIdRows) :
        Start(Csv(AllColumns, <<Record(ID_1001, StrV(NAME_ZHANG), StrV(S_UO), NoDate)>>),
              KalenSheet([i \in 1..Len(ids) |-> Stored(ids[i], NoneV)]), Today)

SpecLinker == InitLinker /\ [][NextLinker]_vars

\* The capture pass of lines 166-176 has run; the linking pass of lines 339-345 has run
Captured == pc \notin {"load_template", "write_temp", "load_kalen", "except", "done"}

Linked ==
    pc \in {"vip", "deadline", "options", "save_offer", "save_kalen", "zip", "unlink", "return"}

\* The identifier a link formula of the linker shows
LinkedId(cell) == DisplayText(cell.v)

SheetLink(id) ==
    HyperlinkFormula(<<"[">> \o OFFER_FILE \o <<"]">> \o clean_sheet_name(PyStr(id))
                         \o <<"!", "A", "1">>,
                     PyStr(id))

LinksTargetClientSheets ==
    Linked =>
        \A i \in 1..Len(kalen_file.ids) :
            IF (i + 1) \in DOMAIN id_values
            THEN kalen_ws[i].v = StrV(SheetLink(id_values[i + 1]))
            ELSE kalen_ws[i] = kalen_file.ids[i]

(***************************************************************************)
(* Deadlines                                                               *)
(***************************************************************************)
MaxDeadlineRows == 2

Junk == [k |-> "junk", d |-> 0]

DeadlineRecords ==
    {Record(ID_1001, StrV(NAME_ZHANG), StrV(S_UO), dl) :
        dl \in {NoDate, Junk} \cup {OnDay(Today + k) : k \in {-1, 0, 1, 30, 31}}}
        \cup {Record(ID_1002, StrV(NAME_LI), StrV(S_CO), [k |-> "datetime", d |-> Today + 5])}

DeadlineColumns == {AllColumns, AllColumns \ {"Student-Number"}}

InitDeadline ==
    \E columns \in DeadlineColumns, rows \in SeqsUpTo(DeadlineRecords, MaxDeadlineRows) :
        Start(Csv(columns, Tagged(rows)), OtherClientSheet, Today)

SpecDeadline == InitDeadline /\ [][Next]_vars

\* The column of the countdown: behind the display columns
CountdownColumn == Len(DisplayColumns(existing_columns)) + 1

\* The countdown cell of data row r of sheet ws; Cell(None, "", "") when it has none
CountdownCell(ws, r) ==
    IF <<r, CountdownColumn>> \in DOMAIN ws.cells THEN ws.cells[<<r, CountdownColumn>>]
    ELSE Cell(NoneV, "", "")

(***************************************************************************)
(* C9: for a record with a parsed deposit deadline the countdown cell      *)
(* holds days = deadline - today, gray for days <= 0, red with white text  *)
(* for 1 <= days <= 30, without fill for days >= 31; for a record with a   *)
(* missing or unparseable deadline the countdown cell is empty.            *)
(***************************************************************************)
CountdownExact ==
    SheetsBuilt =>
        \A kr \in AllDataRows :
            LET ws == offer_wb[kr[1]]
                field == csv.rows[RecordOf(ws, kr[2])].depositDeadline
                cell == CountdownCell(ws, kr[2])
                days == field.d - now
            IN IF field.k \in {"date", "datetime"}
               THEN /\ cell.v = IntV(days)
                    /\ days <= 0 => cell.fill = "808080"
                    /\ (1 <= days /\ days <= 30) =>
                          cell.fill = "FF0000" /\ cell.font = "FFFFFF"
                    /\ days >= 31 => cell.fill = ""
               ELSE cell = Cell(NoneV, "", "")

\* One sheet shows day 30 in red and day 31 without fill
BoundaryDaysShown ==
    /\ SheetsBuilt
    /\ \E k \in 1..Len(offer_wb) :
         \E r1, r2 \in DataRows(offer_wb[k]) :
            /\ CountdownCell(offer_wb[k], r1) = Cell(IntV(30), "FF0000", "FFFFFF")
            /\ CountdownCell(offer_wb[k], r2) = Cell(IntV(31), "", "")

(***************************************************************************)
(* C10: the deadline rollup holds exactly one row for every per-client     *)
(* data row whose countdown cell holds a number in [0, 30], no other row,  *)
(* whichever allow-listed columns the dataset has, sorted by remaining     *)
(* days.                                                                   *)
(***************************************************************************)
RollupBuilt == pc \in {"options", "save_offer", "save_kalen", "zip", "unlink", "return"}

DueRows ==
    {kr \in AllDataRows :
        LET v == CountdownCell(offer_wb[kr[1]], kr[2]).v
        IN v.t = "int" /\ 0 <= v.n /\ v.n <= 30}

DeadlineRollupExact ==
    RollupBuilt =>
        /\ Len(summary_data) = Cardinality(DueRows)
        /\ \A kr \in DueRows :
             \E j \in 1..Len(summary_data) :
                /\ summary_data[j].clientId = offer_wb[kr[1]].title
                /\ summary_data[j].row = kr[2]
                /\ summary_data[j].days = CountdownCell(offer_wb[kr[1]], kr[2]).v.n
        /\ \A j1, j2 \in 1..Len(summary_data) :
             j1 < j2 => summary_data[j1].days <= summary_data[j2].days

(***************************************************************************)
(* The VIP rollup                                                          *)
(***************************************************************************)
MaxVipRows == 2

OXFORD_FULL ==
    <<"U", "n", "i", "v", "e", "r", "s", "i", "t", "y", " ", "o", "f", " ", "O", "x", "f", "o",
      "r", "d">>
OXFORD_LOWER ==
    <<"u", "n", "i", "v", "e", "r", "s", "i", "t", "y", " ", "o", "f", " ", "o", "x", "f", "o",
      "r", "d">>

\* One line of the CSV file with its institution
Application(id, name, institution, status) ==
    [Record(id, name, status, NoDate) EXCEPT !.institution = institution]

VipRecords ==
    {Application(who[1], StrV(who[2]), StrV(inst), StrV(st)) :
        who \in {<<ID_1001, NAME_ZHANG>>, <<ID_1002, NAME_LI>>},
        inst \in {OXFORD_FULL, OXFORD_LOWER, UCL},
        st \in {S_UO, S_REJECT}}

VipColumns == {AllColumns, AllColumns \ {"program"}}

InitVip ==
    \E columns \in VipColumns, rows \in SeqsUpTo(VipRecords, MaxVipRows) :
        Start(Csv(columns, Tagged(rows)), OtherClientSheet, Today)

SpecVip == InitVip /\ [][Next]_vars

\* The value of a data row under the header field; None when the sheet has no such column
FieldOf(ws, r, field) ==
    IF \E rc \in DOMAIN ws.cells : rc[1] = 2 /\ ws.cells[rc].v = StrV(<<field>>)
    THEN ws.cells[<<r, (CHOOSE rc \in DOMAIN ws.cells :
                           rc[1] = 2 /\ ws.cells[rc].v = StrV(<<field>>))[2]>>].v
    ELSE NoneV

VipBuilt ==
    pc \in {"deadline", "options", "save_offer", "save_kalen", "zip", "unlink", "return"}

\* The institution names one of the five VIP institutions, whatever its case
NamesVip(v) ==
    IsStr(v) /\ \E k \in 1..Len(vip_schools) : Contains(Lower(v.s), Lower(vip_schools[k]))

VipRows == {kr \in AllDataRows : NamesVip(FieldOf(offer_wb[kr[1]], kr[2], "institution"))}

\* The sheet an entry of a rollup was read from
SheetOf(entry) == CHOOSE k \in 1..Len(offer_wb) : offer_wb[k].title = entry.clientId

\* (institution, 0 if the status contains 获得 else 1, name) of an entry, from its row
RollupKey(entry) ==
    LET ws == offer_wb[SheetOf(entry)]
        status == FieldOf(ws, entry.row, "resultStatus")
    IN <<FieldOf(ws, entry.row, "institution").s,
         IF IsStr(status) /\ Contains(status.s, OBTAINED) THEN 0 ELSE 1,
         entry.name.s>>

KeyLeq(a, b) ==
    \/ StrLess(a[1], b[1])
    \/ a[1] = b[1] /\ a[2] < b[2]
    \/ a[1] = b[1] /\ a[2] = b[2] /\ ~StrLess(b[3], a[3])

(***************************************************************************)
(* C11: the VIP rollup holds exactly one row for every per-client data row *)
(* whose institution names one of the five VIP institutions in any case,   *)
(* no other row, sorted by (institution, 0 if the status contains 获得     *)
(* else 1, name).                                                          *)
(***************************************************************************)
VipRollupExact ==
    VipBuilt =>
        /\ Len(vip_data) = Cardinality(VipRows)
        /\ \A kr \in VipRows :
             \E j \in 1..Len(vip_data) :
                /\ vip_data[j].clientId = offer_wb[kr[1]].title
                /\ vip_data[j].row = kr[2]
        /\ \A j1, j2 \in 1..Len(vip_data) :
             j1 < j2 => KeyLeq(RollupKey(vip_data[j1]), RollupKey(vip_data[j2]))

(***************************************************************************)
(* The choice lists                                                        *)
(***************************************************************************)
MaxChoiceRecords == 2

MaxSourceRows == 2

MA == <<"M", "A">>
SPACES == <<" ", " ">>

\* One line of the CSV file with its institution and program
Choice(id, institution, program) ==
    [Record(id, StrV(NAME_ZHANG), StrV(S_UO), NoDate)
        EXCEPT !.institution = institution, !.program = program]

ChoiceRecords ==
    {Choice(ID_1001, StrV(UCL), StrV(MSC)), Choice(ID_1001, StrV(OXFORD), StrV(MSC)),
     Choice(ID_1001, StrV(UCL), StrV(MA)), Choice(ID_1001, NaN, StrV(MA)),
     Choice(ID_1001, StrV(SPACES), StrV(MSC)), Choice(ID_1002, StrV(OXFORD), StrV(MSC))}

SourceIds == {IntV(1001), IntV(1002)}

InitChoice ==
    \E rows \in SeqsUpTo(ChoiceRecords, MaxChoiceRecords),
       ids \in SeqsUpTo(SourceIds, MaxSourceRows) :
        Start(Csv(AllColumns, rows),
              KalenSheet([i \in 1..Len(ids) |-> Stored(ids[i], NoneV)]), Today)

SpecChoice == InitChoice /\ [][Next]_vars

OptionsBuilt == pc \in {"save_offer", "save_kalen", "zip", "unlink", "return"}

\* A cell that holds an institution or a program: a text that is not blank
Named(v) == IsStr(v) /\ Strip(v.s) # <<>>

\* The data rows of a sheet that hold both an institution and a program
PairRows(ws) ==
    {r \in DataRows(ws) :
        Named(FieldOf(ws, r, "institution")) /\ Named(FieldOf(ws, r, "program"))}

\* The per-client sheets of the identifier of source row i
SheetsOfRow(i) ==
    {k \in 1..Len(offer_wb) :
        offer_wb[k].title = clean_sheet_name(PyStr(kalen_file.ids[i].v))}

\* The distinct institutions and programs of the client of source row i
InstitutionsOf(i) ==
    UNION {{Strip(FieldOf(offer_wb[k], r, "institution").s) : r \in PairRows(offer_wb[k])} :
             k \in SheetsOfRow(i)}

ProgramsOf(i) ==
    UNION {{Strip(FieldOf(offer_wb[k], r, "program").s) : r \in PairRows(offer_wb[k])} :
             k \in SheetsOfRow(i)}

\* The list constraints of source row i on column list of the options sheet
ConstraintsOf(i, list) == {v \in validations : v.row = i + 1 /\ v.list = list}

\* Source row i has a block of its own: each of its two constraints starts below a
\* header row that names its identifier
HasBlock(i) ==
    /\ \E v \in ConstraintsOf(i, "A") :
         /\ v.column = kalen_file.ncols + 1
         /\ <<v.first - 1, 1>> \in DOMAIN options_ws
         /\ options_ws[<<v.first - 1, 1>>] = SchoolHeader(kalen_file.ids[i].v)
    /\ \E v \in ConstraintsOf(i, "B") :
         /\ v.column = kalen_file.ncols + 2
         /\ <<v.first - 1, 2>> \in DOMAIN options_ws
         /\ options_ws[<<v.first - 1, 2>>] = ProgramHeader(kalen_file.ids[i].v)

(***************************************************************************)
(* C12: every source row whose identifier has a per-client sheet with a    *)
(* row holding both institution and program gets a block and a list        *)
(* constraint on each of its two enrollment cells, also when several       *)
(* source rows carry the same identifier; a source row whose option set is *)
(* empty gets no block and no constraint.                                  *)
(***************************************************************************)
ConstraintsPerSourceRow ==
    OptionsBuilt =>
        \A i \in 1..Len(kalen_file.ids) :
            IF InstitutionsOf(i) # {} \/ ProgramsOf(i) # {}
            THEN HasBlock(i)
            ELSE ConstraintsOf(i, "A") = {} /\ ConstraintsOf(i, "B") = {}

(***************************************************************************)
(* C13: a missing allow-listed column is not fatal.  A run whose CSV lacks *)
(* an allow-listed column, and in which nothing fails but what the missing *)
(* column makes fail, ends with the archive of both output documents.      *)
(***************************************************************************)
MissingColumnRecoverable ==
    (pc = "done" /\ csv.columns # AllColumns /\ error \in {"", "KeyError"}) =>
        /\ result.kind = "zip"
        /\ Len(result.entries) = 2

(***************************************************************************)
(* The name of the header link                                             *)
(***************************************************************************)
MaxNameRecords == 2

\* The records of client 1001, with and without a name
NameRecords ==
    {Record(ID_1001, name, st, NoDate) :
        name \in {StrV(NAME_ZHANG), StrV(NAME_LI), NaN}, st \in {StrV(S_UO), StrV(S_REJECT)}}

InitName ==
    \E rows \in SeqsUpTo(NameRecords, MaxNameRecords) :
        Start(Csv(AllColumns, rows), OtherClientSheet, Today)

SpecName == InitName /\ [][Next]_vars

\* The names the records of the client of sheet ws have
GroupNames(ws) ==
    {csv.rows[i].name.s :
        i \in {i \in 1..Len(csv.rows) :
                 /\ clean_sheet_name(csv.rows[i].clientId) = ws.title
                 /\ ~IsNa(csv.rows[i].name)}}

\* The header link of sheet ws shows the text name
HeaderShows(ws, name) ==
    CellValue(ws, 1, 1) = StrV(HyperlinkFormula(CRM_URL \o ws.title, name))

(***************************************************************************)
(* C14: the header link of a per-client sheet shows a name of the client's *)
(* group whenever a record of the group has one, and the placeholder       *)
(* 未知姓名 only when no record of the group has a name.                   *)
(***************************************************************************)
HeaderNameFromGroup ==
    SheetsBuilt =>
        \A k \in 1..Len(offer_wb) :
            IF GroupNames(offer_wb[k]) # {}
            THEN \E name \in GroupNames(offer_wb[k]) : HeaderShows(offer_wb[k], name)
            ELSE HeaderShows(offer_wb[k], UNKNOWN_NAME)

(***************************************************************************)
(* The two colour rules applied to one status                              *)
(***************************************************************************)
MaxStatusLen == 3

StatusChars == {"U+83B7", "U+5F97", "U+62D2", "U+4FE1"}

\* The statuses the two rules name, short texts, and values that are no text
StatusValues ==
    {StrV(w) : w \in {S_CAS, S_UO, S_CO, S_REJECT, S_WITHDRAWN, S_GIVEUP, S_SUBMITTED,
                      S_FEE_UNSENT, S_FEE_SENT, S_DOCS, S_CANCEL, NOT_OBTAINED}}
        \cup {StrV(w) : w \in SeqsUpTo(StatusChars, MaxStatusLen)}
        \cup {NaN, NoneV, IntV(0), IntV(1)}

InitColour ==
    /\ value \in StatusValues
    /\ styles = <<>>
    /\ pc = "colour"
    /\ written = <<>>
    /\ idResult = Unset
    /\ nameResult = Unset
    /\ csv = Csv({}, <<>>)
    /\ kalen_file = NoIdSheet
    /\ now = Today
    /\ template_df = <<>>
    /\ existing_columns = <<>>
    /\ tmp_path = "unset"
    /\ id_values = <<>>
    /\ offer_wb = <<>>
    /\ clients = <<>>
    /\ kalen_ws = <<>>
    /\ summary_data = <<>>
    /\ saves = [w \in {"offer", "kalen"} |-> NoSave]
    /\ zip_buffer = <<>>
    /\ result = Running
    /\ runs = 0
    /\ vip_data = <<>>
    /\ student_options = <<>>
    /\ options_ws = <<>>
    /\ validations = {}
    /\ error = ""

\* The status cell of a per-client sheet, lines 280-300, and of the VIP sheet, lines
\* 414-425, formatted for the same status
Colour ==
    /\ pc = "colour"
    /\ styles' = [sheet |-> StatusStyle(value), vip |-> VipStyle(value)]
    /\ pc' = "coloured"
    /\ UNCHANGED <<csv, kalen_file, now, template_df, existing_columns, tmp_path, id_values,
                   offer_wb, clients, kalen_ws, summary_data, saves, zip_buffer, result, runs,
                   value, written, idResult, nameResult, vip_data, student_options,
                   options_ws, validations, error>>

NextColour == Colour

SpecColour == InitColour /\ [][NextColour]_vars

(***************************************************************************)
(* C15: the VIP colouring is a subset of the per-client colouring.  For    *)
(* every status, a fill the VIP rule gives the cell is the fill the rule   *)
(* of the per-client sheet gives the same status.                          *)
(***************************************************************************)
VipColouringSubset ==
    (pc = "coloured" /\ styles.vip[1] # "") => styles.sheet[1] = styles.vip[1]

(***************************************************************************)
(* The layout of the options sheet                                         *)
(***************************************************************************)
\* The source rows that were given a block
BlockRows ==
    {i \in 1..Len(kalen_file.ids) : ConstraintsOf(i, "A") \cup ConstraintsOf(i, "B") # {}}

\* The rows the block of source row i takes: a header row, the value rows, a blank row
BlockSize(i) == Max(Cardinality(InstitutionsOf(i)), Cardinality(ProgramsOf(i))) + 2

\* The rows of the blocks of the source rows above row i
RECURSIVE RowsBefore(_)
RowsBefore(i) ==
    IF i = 1 THEN 0
    ELSE RowsBefore(i - 1) + (IF (i - 1) \in BlockRows THEN BlockSize(i - 1) ELSE 0)

HeaderRowOf(i) == RowsBefore(i) + 1

\* The cell of the options sheet is blank
Blank(r, c) == <<r, c>> \notin DOMAIN options_ws \/ options_ws[<<r, c>>] = <<>>

\* Column c of the block of source row i: the header, then the texts of S in cells of
\* their own, then blank cells down to the separator row
ColumnLaidOut(i, c, header, S) ==
    LET h == HeaderRowOf(i)
        n == Cardinality(S)
    IN /\ ~Blank(h, c) /\ options_ws[<<h, c>>] = header
       /\ \A r \in (h + 1)..(h + n) : ~Blank(r, c)
       /\ {options_ws[<<r, c>>] : r \in (h + 1)..(h + n)} = S
       /\ \A r \in (h + n + 1)..(h + BlockSize(i) - 1) : Blank(r, c)

\* Every constraint of source row i on column list spans the cells of the n texts
RangeExact(i, list, n) ==
    \A v \in ConstraintsOf(i, list) :
        v.first = HeaderRowOf(i) + 1 /\ v.last = HeaderRowOf(i) + n

(***************************************************************************)
(* C16: the blocks of the options sheet follow one another in source-row   *)
(* order without overlap, each a header row, max(#institutions, #programs) *)
(* value rows and a blank row; the institution range of a source row is    *)
(* exactly the cells of column A that hold its distinct institutions, the  *)
(* program range exactly the cells of column B that hold its distinct      *)
(* programs, with no blank cell, header cell or cell of another block in   *)
(* either range.                                                           *)
(***************************************************************************)
OptionBlocksExact ==
    OptionsBuilt =>
        /\ \A i \in BlockRows :
             /\ ColumnLaidOut(i, 1, SchoolHeader(kalen_file.ids[i].v), InstitutionsOf(i))
             /\ ColumnLaidOut(i, 2, ProgramHeader(kalen_file.ids[i].v), ProgramsOf(i))
             /\ RangeExact(i, "A", Cardinality(InstitutionsOf(i)))
             /\ RangeExact(i, "B", Cardinality(ProgramsOf(i)))
        /\ \A rc \in DOMAIN options_ws : rc[1] <= RowsBefore(Len(kalen_file.ids) + 1)

====
